---- MODULE Spec2Model ----
(***************************************************************************)
(* Model of lunal-attestation, package pkg/attestation:                    *)
(*   VerifyAttestation (verify.go) and Attest (attestation.go).            *)
(* One call runs at a time; each call advances statement by statement so   *)
(* that the order of validation, hardware access and verifier invocation   *)
(* is part of the state.                                                   *)
(***************************************************************************)
EXTENDS Integers, Sequences, FiniteSets, TLC

(* Largest byte value used to build nonces. Nonces are <<>> and <<b>>. *)
MaxByte == 2

Nonces == {<<>>} \cup {<<b>> : b \in 1..MaxByte}

(***************************************************************************)
(* Data of the verifier                                                    *)
(***************************************************************************)

(* pb.GCEConfidentialTechnology: the values of the enum. *)
Techs == {"NONE", "AMD_SEV", "AMD_SEV_ES", "INTEL_TDX", "AMD_SEV_SNP"}

(* The oneof Attestation.TeeAttestation: nil, or one of the two variants   *)
(* carrying evidence. Evidence is described by the report data bound into  *)
(* it at production and by whether its signature chain is genuine.         *)
NoTee == [variant |-> "nil", reportData |-> <<>>, genuine |-> FALSE]

TeeVariants == {"SevSnpAttestation", "TdxAttestation"}

TeeSlots ==
    {NoTee} \cup [variant : TeeVariants, reportData : Nonces, genuine : BOOLEAN]

(* pb.Attestation as far as the verifier reads it: the AK public area, the *)
(* nonce the quote was made over, the technology the event log replays to, *)
(* and the TEE-evidence slot.                                              *)
NoAttestation ==
    [akPub |-> "none", quoteNonce |-> <<>>, tech |-> "NONE", TeeAttestation |-> NoTee]

Attestations ==
    [akPub : {"ok", "badEncoding", "badKey"}, quoteNonce : Nonces,
     tech : Techs, TeeAttestation : TeeSlots]

(* The wire bytes: an encoding of a record in one of the two formats, or   *)
(* bytes that decode under neither.                                        *)
WireBytes ==
    [enc : {"binarypb", "textproto"}, rec : Attestations]
        \cup {[enc |-> "garbage", rec |-> NoAttestation]}

Formats == {"binarypb", "textproto", "json"}

(* pb.MachineState: Platform.Technology and the TeeAttestation oneof. *)
NoMS == [present |-> FALSE, Technology |-> "NONE", TeeAttestation |-> NoTee]

MachineState(tech, tee) ==
    [present |-> TRUE, Technology |-> tech, TeeAttestation |-> tee]

(* Error values of VerifyAttestation, named by the stage that makes them. *)
ErrNil == "nil"
ErrUnmarshal == "fail to unmarshal attestation report"
ErrBadFormat == "format should be either binarypb or textproto"
ErrDecodePublic == "tpm2.DecodePublic"
ErrPubKey == "pub.Key"
ErrTPM == "verifying TPM attestation"
ErrTEE == "verifying TEE attestation"
ErrParseTEE == "failed to parse machineState from TEE attestation"

(***************************************************************************)
(* External capabilities called by the verifier                            *)
(***************************************************************************)

(* proto.Unmarshal / prototext.Unmarshal: bytes decode only under the      *)
(* format they were encoded in.                                            *)
Unmarshal(format, bytes) ==
    IF bytes.enc = format
    THEN [err |-> ErrNil, attestation |-> bytes.rec]
    ELSE [err |-> ErrUnmarshal, attestation |-> NoAttestation]

(* server.VerifyAttestation of go-tpm-tools: checks the quote against the  *)
(* nonce and yields the platform state replayed from the event log.        *)
serverVerifyAttestation(attestation, nonce) ==
    IF attestation.quoteNonce = nonce
    THEN [err |-> ErrNil, ms |-> MachineState(attestation.tech, NoTee)]
    ELSE [err |-> ErrTPM, ms |-> NoMS]

tdxDefaultValidateOpts(reportData) == [ReportData |-> reportData]

sevSnpDefaultValidateOpts(reportData) == [ReportData |-> reportData]

(* One invocation of a technology-specific verifier, as a record of what   *)
(* was verified, against which expected report data, and the verdict.      *)
VerifierCall(verifier, evidence, opts) ==
    [verifier |-> verifier, evidence |-> evidence,
     expected |-> opts.Validation.ReportData,
     ok |-> evidence.genuine /\ evidence.reportData = opts.Validation.ReportData]

verifyTdxAttestation(evidence, opts) == VerifierCall("tdx", evidence, opts)

verifySevSnpAttestation(evidence, opts) == VerifierCall("sev-snp", evidence, opts)

(***************************************************************************)
(* verifyGceTechnology and parseTEEAttestation                             *)
(***************************************************************************)

TdxOpts_nonceOnly(nonce, teeNonce) ==
    [Validation |-> tdxDefaultValidateOpts(nonce), Verification |-> "tv.DefaultOptions"]

(* verify.go 105-116 *)
TdxOpts(nonce, teeNonce) ==
    IF Len(teeNonce) # 0
    THEN [Validation |-> tdxDefaultValidateOpts(teeNonce), Verification |-> "tv.DefaultOptions"]
    ELSE [Validation |-> tdxDefaultValidateOpts(nonce), Verification |-> "tv.DefaultOptions"]

(* verify.go 124-135 *)
SnpOpts(nonce, teeNonce) ==
    IF Len(teeNonce) # 0
    THEN [Validation |-> sevSnpDefaultValidateOpts(teeNonce), Verification |-> "sv.Options"]
    ELSE [Validation |-> sevSnpDefaultValidateOpts(nonce), Verification |-> "sv.Options"]

(* The result of verifyGceTechnology: its error (TRUE when non-nil) and    *)
(* the verifier invocations it made.                                       *)
GceResult(failed, calls) == [failed |-> failed, calls |-> calls]

verifyGceTechnology_snpUnchecked(attestation, nonce, teeNonce) ==
    LET tee == attestation.TeeAttestation IN
    IF tee = NoTee THEN GceResult(FALSE, <<>>)
    ELSE IF tee.variant = "TdxAttestation"
         THEN LET call == verifyTdxAttestation(tee, TdxOpts(nonce, teeNonce))
              IN  GceResult(~call.ok, <<call>>)
    ELSE GceResult(FALSE, <<>>)

verifyGceTechnology_byTech(attestation, nonce, teeNonce) ==
    LET tee == attestation.TeeAttestation IN
    IF attestation.tech = "INTEL_TDX" /\ tee.variant = "TdxAttestation"
    THEN LET call == verifyTdxAttestation(tee, TdxOpts(nonce, teeNonce))
         IN  GceResult(~call.ok, <<call>>)
    ELSE IF attestation.tech = "AMD_SEV_SNP" /\ tee.variant = "SevSnpAttestation"
    THEN LET call == verifySevSnpAttestation(tee, SnpOpts(nonce, teeNonce))
         IN  GceResult(~call.ok, <<call>>)
    ELSE GceResult(FALSE, <<>>)

verifyGceTechnology_nonceNeedsEvidence(attestation, nonce, teeNonce) ==
    LET tee == attestation.TeeAttestation IN
    IF tee = NoTee THEN GceResult(Len(teeNonce) # 0, <<>>)
    ELSE IF tee.variant = "TdxAttestation"
         THEN LET call == verifyTdxAttestation(tee, TdxOpts(nonce, teeNonce))
              IN  GceResult(~call.ok, <<call>>)
    ELSE IF tee.variant = "SevSnpAttestation"
         THEN LET call == verifySevSnpAttestation(tee, SnpOpts(nonce, teeNonce))
              IN  GceResult(~call.ok, <<call>>)
    ELSE GceResult(TRUE, <<>>)

verifyGceTechnology(attestation, nonce, teeNonce) ==
    LET tee == attestation.TeeAttestation IN
    IF tee = NoTee THEN GceResult(FALSE, <<>>)
    ELSE IF tee.variant = "TdxAttestation"
         THEN LET call == verifyTdxAttestation(tee, TdxOpts(nonce, teeNonce))
              IN  GceResult(~call.ok, <<call>>)
    ELSE IF tee.variant = "SevSnpAttestation"
         THEN LET call == verifySevSnpAttestation(tee, SnpOpts(nonce, teeNonce))
              IN  GceResult(~call.ok, <<call>>)
    ELSE GceResult(TRUE, <<>>)

parseTEEAttestation_rejectOther(attestation, tech) ==
    LET tee == attestation.TeeAttestation IN
    IF tech = "AMD_SEV_SNP"
    THEN IF tee.variant # "SevSnpAttestation"
         THEN [failed |-> TRUE, ms |-> NoMS]
         ELSE [failed |-> FALSE, ms |-> MachineState("NONE", tee)]
    ELSE IF tech = "INTEL_TDX"
    THEN IF tee.variant # "TdxAttestation"
         THEN [failed |-> TRUE, ms |-> NoMS]
         ELSE [failed |-> FALSE, ms |-> MachineState("NONE", tee)]
    ELSE IF tech = "NONE"
    THEN [failed |-> FALSE, ms |-> MachineState("NONE", NoTee)]
    ELSE [failed |-> TRUE, ms |-> NoMS]

parseTEEAttestation_noTypeCheck(attestation, tech) ==
    IF tech \in {"AMD_SEV_SNP", "INTEL_TDX"}
    THEN [failed |-> FALSE, ms |-> MachineState("NONE", attestation.TeeAttestation)]
    ELSE [failed |-> FALSE, ms |-> MachineState("NONE", NoTee)]

parseTEEAttestation(attestation, tech) ==
    LET tee == attestation.TeeAttestation IN
    IF tech = "AMD_SEV_SNP"
    THEN IF tee.variant # "SevSnpAttestation"
         THEN [failed |-> TRUE, ms |-> NoMS]
         ELSE [failed |-> FALSE, ms |-> MachineState("NONE", tee)]
    ELSE IF tech = "INTEL_TDX"
    THEN IF tee.variant # "TdxAttestation"
         THEN [failed |-> TRUE, ms |-> NoMS]
         ELSE [failed |-> FALSE, ms |-> MachineState("NONE", tee)]
    ELSE [failed |-> FALSE, ms |-> MachineState("NONE", NoTee)]


(* VerifyAttestation, verify.go 25-68, as a function of its arguments: the *)
(* value (ms, err) the call returns.                                       *)
VerifyAttestation(attestationBytes, format, nonce, teeNonce) ==
    IF format \notin {"binarypb", "textproto"}
    THEN [ms |-> NoMS, err |-> ErrBadFormat]
    ELSE LET u == Unmarshal(format, attestationBytes) IN
    IF u.err # ErrNil THEN [ms |-> NoMS, err |-> ErrUnmarshal]
    ELSE IF u.attestation.akPub = "badEncoding" THEN [ms |-> NoMS, err |-> ErrDecodePublic]
    ELSE IF u.attestation.akPub = "badKey" THEN [ms |-> NoMS, err |-> ErrPubKey]
    ELSE LET base == serverVerifyAttestation(u.attestation, nonce) IN
    IF base.err # ErrNil THEN [ms |-> NoMS, err |-> ErrTPM]
    ELSE IF verifyGceTechnology(u.attestation, nonce, teeNonce).failed
    THEN [ms |-> NoMS, err |-> ErrTEE]
    ELSE LET teeMS == parseTEEAttestation(u.attestation, base.ms.Technology) IN
    IF teeMS.failed THEN [ms |-> NoMS, err |-> ErrParseTEE]
    ELSE [ms |-> [base.ms EXCEPT !.TeeAttestation = teeMS.ms.TeeAttestation],
          err |-> ErrNil]

(***************************************************************************)
(* State                                                                   *)
(***************************************************************************)
VARIABLES
    vpc,          \* VerifyAttestation: the statement about to run
    vin,          \* its arguments
    attestation,  \* its local: the unmarshalled record
    ms,           \* its local: the machine state of the base verification
    teeCalls,     \* the TEE verifier invocations made so far in the call
    vstages,      \* the stages of the call that have run
    vret,         \* its return value (ms, err)
    apc,          \* Attest: the statement about to run
    opts,         \* its argument
    hw,           \* device and collaborator operations performed so far
    defers,       \* its stack of deferred calls
    attestOpts,   \* its local client.AttestOpts
    aret,         \* its return value (out, err)
    panicked      \* whether the call ended in a run-time panic

vvars == <<vpc, vin, attestation, ms, teeCalls, vstages, vret>>
avars == <<apc, opts, hw, defers, attestOpts, aret, panicked>>
vars == <<vpc, vin, attestation, ms, teeCalls, vstages, vret,
          apc, opts, hw, defers, attestOpts, aret, panicked>>

NoArgs ==
    [attestationBytes |-> [enc |-> "garbage", rec |-> NoAttestation],
     format |-> "binarypb", nonce |-> <<>>, teeNonce |-> <<>>]

VerifyArgs ==
    [attestationBytes : WireBytes, format : Formats, nonce : Nonces, teeNonce : Nonces]

NoVRet == [ms |-> NoMS, err |-> "unset"]

VInit ==
    /\ vpc = "idle"
    /\ vin = NoArgs
    /\ attestation = NoAttestation
    /\ ms = NoMS
    /\ teeCalls = <<>>
    /\ vstages = <<>>
    /\ vret = NoVRet

(***************************************************************************)
(* VerifyAttestation, verify.go 25-68                                      *)
(***************************************************************************)

(* return nil, err *)
VFail(err) ==
    /\ vret' = [ms |-> NoMS, err |-> err]
    /\ vpc' = "done"

VerifyCall ==
    /\ vpc = "idle"
    /\ apc = "idle"
    /\ \E a \in VerifyArgs : vin' = a
    /\ vpc' = "unmarshal"
    /\ UNCHANGED <<attestation, ms, teeCalls, vstages, vret>>
    /\ UNCHANGED avars

(* verify.go 26-40 *)
VUnmarshal ==
    /\ vpc = "unmarshal"
    /\ vstages' = Append(vstages, "unmarshal")
    /\ IF vin.format \in {"binarypb", "textproto"}
       THEN LET r == Unmarshal(vin.format, vin.attestationBytes) IN
            IF r.err # ErrNil
            THEN VFail(ErrUnmarshal) /\ UNCHANGED attestation
            ELSE /\ attestation' = r.attestation
                 /\ vpc' = "DecodePublic"
                 /\ UNCHANGED vret
       ELSE VFail(ErrBadFormat) /\ UNCHANGED attestation
    /\ UNCHANGED <<vin, ms, teeCalls>>
    /\ UNCHANGED avars

(* verify.go 42-45 *)
VDecodePublic ==
    /\ vpc = "DecodePublic"
    /\ vstages' = Append(vstages, "DecodePublic")
    /\ IF attestation.akPub = "badEncoding"
       THEN VFail(ErrDecodePublic)
       ELSE vpc' = "pub.Key" /\ UNCHANGED vret
    /\ UNCHANGED <<vin, attestation, ms, teeCalls>>
    /\ UNCHANGED avars

(* verify.go 46-49 *)
VPubKey ==
    /\ vpc = "pub.Key"
    /\ vstages' = Append(vstages, "pub.Key")
    /\ IF attestation.akPub = "badKey"
       THEN VFail(ErrPubKey)
       ELSE vpc' = "server.VerifyAttestation" /\ UNCHANGED vret
    /\ UNCHANGED <<vin, attestation, ms, teeCalls>>
    /\ UNCHANGED avars

VServerVerify_ignoreErr ==
    /\ vpc = "server.VerifyAttestation"
    /\ vstages' = Append(vstages, "server.VerifyAttestation")
    /\ ms' = serverVerifyAttestation(attestation, vin.nonce).ms
    /\ vpc' = "verifyGceTechnology"
    /\ UNCHANGED <<vin, attestation, teeCalls, vret>>
    /\ UNCHANGED avars

(* verify.go 51-54 *)
VServerVerify ==
    /\ vpc = "server.VerifyAttestation"
    /\ vstages' = Append(vstages, "server.VerifyAttestation")
    /\ LET r == serverVerifyAttestation(attestation, vin.nonce) IN
       /\ ms' = r.ms
       /\ IF r.err # ErrNil
          THEN VFail(ErrTPM)
          ELSE vpc' = "verifyGceTechnology" /\ UNCHANGED vret
    /\ UNCHANGED <<vin, attestation, teeCalls>>
    /\ UNCHANGED avars

(* verify.go 56-59 *)
VVerifyGceTechnology ==
    /\ vpc = "verifyGceTechnology"
    /\ vstages' = Append(vstages, "verifyGceTechnology")
    /\ LET r == verifyGceTechnology(attestation, vin.nonce, vin.teeNonce) IN
       /\ teeCalls' = teeCalls \o r.calls
       /\ IF r.failed
          THEN VFail(ErrTEE)
          ELSE vpc' = "parseTEEAttestation" /\ UNCHANGED vret
    /\ UNCHANGED <<vin, attestation, ms>>
    /\ UNCHANGED avars

(* verify.go 61-67 *)
VParseTEEAttestation ==
    /\ vpc = "parseTEEAttestation"
    /\ vstages' = Append(vstages, "parseTEEAttestation")
    /\ LET teeMS == parseTEEAttestation(attestation, ms.Technology) IN
       IF teeMS.failed
       THEN VFail(ErrParseTEE) /\ UNCHANGED ms
       ELSE /\ ms' = [ms EXCEPT !.TeeAttestation = teeMS.ms.TeeAttestation]
            /\ vret' = [ms |-> ms', err |-> ErrNil]
            /\ vpc' = "done"
    /\ UNCHANGED <<vin, attestation, teeCalls>>
    /\ UNCHANGED avars

(* The caller takes the result; the next call starts from fresh locals. *)
VerifyReturn ==
    /\ vpc = "done"
    /\ vpc' = "idle"
    /\ vin' = NoArgs
    /\ attestation' = NoAttestation
    /\ ms' = NoMS
    /\ teeCalls' = <<>>
    /\ vstages' = <<>>
    /\ vret' = NoVRet
    /\ UNCHANGED avars


(***************************************************************************)
(* Data of the producer                                                    *)
(***************************************************************************)

(* attestation.go 18-23 *)
SevSnp == "sev-snp"
Tdx == "tdx"

(* attestation.go 25-34: the two-level table of key-derivation functions.  *)
attestationKeys ==
    [k \in {"AK", "gceAK"} |->
        IF k = "AK"
        THEN [a \in {"AlgRSA", "AlgECC"} |->
                IF a = "AlgRSA" THEN "client.AttestationKeyRSA"
                                ELSE "client.AttestationKeyECC"]
        ELSE [a \in {"AlgRSA", "AlgECC"} |->
                IF a = "AlgRSA" THEN "client.GceAttestationKeyRSA"
                                ELSE "client.GceAttestationKeyECC"]]

(* A Go map read: the value, or the zero value (a nil function) when the   *)
(* key is absent.                                                          *)
MapGet(m, k) == IF k \in DOMAIN m THEN m[k] ELSE "nil"

Keys == {"AK", "gceAK", "foo"}
KeyAlgos == {"AlgRSA", "AlgECC", "AlgSHA256"}
TeeTechnologies == {"", SevSnp, Tdx, "sgx"}

(* attestation.go 43-56 *)
AttestOptions ==
    [Key : Keys, KeyAlgo : KeyAlgos, Nonce : Nonces,
     TeeTechnology : TeeTechnologies, TeeNonce : Nonces, Format : Formats]

(* attestation.go 59-68 *)
DefaultAttestOptions ==
    [Key |-> "AK", KeyAlgo |-> "AlgRSA", Nonce |-> <<>>,
     TeeTechnology |-> "", TeeNonce |-> <<>>, Format |-> "binarypb"]

NoAttestOpts == [Nonce |-> <<>>, TEEDevice |-> "nil", TEENonce |-> <<>>]

(* The nil byte slice returned beside an error. *)
NoOut ==
    [enc |-> "nil", quoteNonce |-> <<>>, tee |-> "nil", teeNonce |-> <<>>,
     instanceInfo |-> FALSE]

NoARet == [out |-> NoOut, err |-> "unset"]

(* Error values of Attest. *)
ErrOpenTPM == "failed to open TPM"
ErrKey == "key should be either AK or gceAK"
ErrCreateKey == "failed to create attestation key"
ErrSnpDevice == "failed to open sev-snp device"
ErrTdxProvider == "failed to create tdx quote provider"
ErrTeeNonce == "use of TeeNonce requires specifying TEE hardware type with TeeTechnology"
ErrTeeTech == "tee-technology should be either empty or should have values sev-snp or tdx"
ErrEventLog == "failed to retrieve TCG Event Log"
ErrAttest == "failed to collect attestation report"
ErrMetadata == "metadata"
ErrMarshal == "failed to marshal attestation proto"

(* One operation on a device or external collaborator, and whether it succeeded. *)
Ev(op, ok) == [op |-> op, ok |-> ok]

RECURSIVE Unwind_keepOpen(_)
Unwind_keepOpen(stack) ==
    IF stack = <<>> THEN <<>>
    ELSE IF stack[Len(stack)] = "rwc.Close"
         THEN Unwind_keepOpen(SubSeq(stack, 1, Len(stack) - 1))
         ELSE <<Ev(stack[Len(stack)], TRUE)>>
                 \o Unwind_keepOpen(SubSeq(stack, 1, Len(stack) - 1))

(* Running the deferred calls at function exit, last deferred first. *)
RECURSIVE Unwind(_)
Unwind(stack) ==
    IF stack = <<>> THEN <<>>
    ELSE <<Ev(stack[Len(stack)], TRUE)>> \o Unwind(SubSeq(stack, 1, Len(stack) - 1))

AInit ==
    /\ apc = "idle"
    /\ opts = DefaultAttestOptions
    /\ hw = <<>>
    /\ defers = <<>>
    /\ attestOpts = NoAttestOpts
    /\ aret = NoARet
    /\ panicked = FALSE

(***************************************************************************)
(* Attest, attestation.go 71-150                                           *)
(***************************************************************************)

(* return out, err after the operations hwNow: the deferred calls run. *)
AReturn(out, err, hwNow) ==
    /\ aret' = [out |-> out, err |-> err]
    /\ hw' = hwNow \o Unwind(defers)
    /\ defers' = <<>>
    /\ panicked' = FALSE
    /\ apc' = "done"

(* A run-time panic: the deferred calls run, nothing is returned. *)
APanic(hwNow) ==
    /\ aret' = NoARet
    /\ hw' = hwNow \o Unwind(defers)
    /\ defers' = <<>>
    /\ panicked' = TRUE
    /\ apc' = "done"

AttestCall ==
    /\ apc = "idle"
    /\ vpc = "idle"
    /\ \E o \in AttestOptions : opts' = o
    /\ apc' = "OpenTPM"
    /\ UNCHANGED <<hw, defers, attestOpts, aret, panicked>>
    /\ UNCHANGED vvars

(* attestation.go 74-78 *)
AOpenTPM ==
    /\ apc = "OpenTPM"
    /\ \E ok \in BOOLEAN :
         LET hwNow == Append(hw, Ev("tpm2.OpenTPM", ok)) IN
         IF ~ok
         THEN AReturn(NoOut, ErrOpenTPM, hwNow)
         ELSE /\ hw' = hwNow
              /\ defers' = Append(defers, "rwc.Close")
              /\ apc' = "checkFormat"
              /\ UNCHANGED <<aret, panicked>>
    /\ UNCHANGED <<opts, attestOpts>>
    /\ UNCHANGED vvars

ACheckFormat_skip ==
    /\ apc = "checkFormat"
    /\ apc' = "lookupKey"
    /\ UNCHANGED <<hw, defers, aret, panicked>>
    /\ UNCHANGED <<opts, attestOpts>>
    /\ UNCHANGED vvars

(* attestation.go 80-82 *)
ACheckFormat ==
    /\ apc = "checkFormat"
    /\ IF ~(opts.Format = "binarypb" \/ opts.Format = "textproto")
       THEN AReturn(NoOut, ErrBadFormat, hw)
       ELSE /\ apc' = "lookupKey"
            /\ UNCHANGED <<hw, defers, aret, panicked>>
    /\ UNCHANGED <<opts, attestOpts>>
    /\ UNCHANGED vvars

(* attestation.go 84-88 *)
ALookupKey ==
    /\ apc = "lookupKey"
    /\ IF opts.Key \notin DOMAIN attestationKeys
       THEN AReturn(NoOut, ErrKey, hw)
       ELSE /\ apc' = "createFunc"
            /\ UNCHANGED <<hw, defers, aret, panicked>>
    /\ UNCHANGED <<opts, attestOpts>>
    /\ UNCHANGED vvars

(* attestation.go 89-94: the looked-up function is called without a check; *)
(* calling a nil function panics.                                          *)
ACreateKey ==
    /\ apc = "createFunc"
    /\ LET createFunc == MapGet(attestationKeys[opts.Key], opts.KeyAlgo) IN
       IF createFunc = "nil"
       THEN APanic(hw)
       ELSE \E ok \in BOOLEAN :
              LET hwNow == Append(hw, Ev(createFunc, ok)) IN
              IF ~ok
              THEN AReturn(NoOut, ErrCreateKey, hwNow)
              ELSE /\ hw' = hwNow
                   /\ defers' = Append(defers, "attestationKey.Close")
                   /\ apc' = "TeeTechnology"
                   /\ UNCHANGED <<aret, panicked>>
    /\ UNCHANGED <<opts, attestOpts>>
    /\ UNCHANGED vvars

ATeeTechnology_noNonceCheck ==
    /\ apc = "TeeTechnology"
    /\ attestOpts' = [attestOpts EXCEPT !.Nonce = opts.Nonce]
    /\ apc' = "GetEventLog"
    /\ UNCHANGED <<hw, defers, aret, panicked>>
    /\ UNCHANGED opts
    /\ UNCHANGED vvars

(* attestation.go 96-119 *)
ATeeTechnology ==
    /\ apc = "TeeTechnology"
    /\ LET withNonce == [attestOpts EXCEPT !.Nonce = opts.Nonce] IN
       IF opts.TeeTechnology = SevSnp
       THEN \E ok \in BOOLEAN :
              LET hwNow == Append(hw, Ev("client.CreateSevSnpQuoteProvider", ok)) IN
              IF ~ok
              THEN AReturn(NoOut, ErrSnpDevice, hwNow) /\ attestOpts' = withNonce
              ELSE /\ hw' = hwNow
                   /\ attestOpts' = [withNonce EXCEPT !.TEEDevice = SevSnp,
                                                      !.TEENonce = opts.TeeNonce]
                   /\ apc' = "GetEventLog"
                   /\ UNCHANGED <<defers, aret, panicked>>
       ELSE IF opts.TeeTechnology = Tdx
       THEN \E ok \in BOOLEAN :
              LET hwNow == Append(hw, Ev("client.CreateTdxQuoteProvider", ok)) IN
              IF ~ok
              THEN AReturn(NoOut, ErrTdxProvider, hwNow) /\ attestOpts' = withNonce
              ELSE /\ hw' = hwNow
                   /\ attestOpts' = [withNonce EXCEPT !.TEEDevice = Tdx,
                                                      !.TEENonce = opts.TeeNonce]
                   /\ apc' = "GetEventLog"
                   /\ UNCHANGED <<defers, aret, panicked>>
       ELSE IF opts.TeeTechnology = ""
       THEN IF Len(opts.TeeNonce) # 0
            THEN AReturn(NoOut, ErrTeeNonce, hw) /\ attestOpts' = withNonce
            ELSE /\ attestOpts' = withNonce
                 /\ apc' = "GetEventLog"
                 /\ UNCHANGED <<hw, defers, aret, panicked>>
       ELSE AReturn(NoOut, ErrTeeTech, hw) /\ attestOpts' = withNonce
    /\ UNCHANGED opts
    /\ UNCHANGED vvars

(* attestation.go 121-124 *)
AGetEventLog ==
    /\ apc = "GetEventLog"
    /\ \E ok \in BOOLEAN :
         LET hwNow == Append(hw, Ev("client.GetEventLog", ok)) IN
         IF ~ok
         THEN AReturn(NoOut, ErrEventLog, hwNow)
         ELSE /\ hw' = hwNow
              /\ apc' = "attestationKey.Attest"
              /\ UNCHANGED <<defers, aret, panicked>>
    /\ UNCHANGED <<opts, attestOpts>>
    /\ UNCHANGED vvars

(* attestation.go 126-129 *)
AKeyAttest ==
    /\ apc = "attestationKey.Attest"
    /\ \E ok \in BOOLEAN :
         LET hwNow == Append(hw, Ev("attestationKey.Attest", ok)) IN
         IF ~ok
         THEN AReturn(NoOut, ErrAttest, hwNow)
         ELSE /\ hw' = hwNow
              /\ apc' = "InstanceInfo"
              /\ UNCHANGED <<defers, aret, panicked>>
    /\ UNCHANGED <<opts, attestOpts>>
    /\ UNCHANGED vvars

(* attestation.go 131-137, 173-213 *)
AInstanceInfo ==
    /\ apc = "InstanceInfo"
    /\ IF opts.Key = "gceAK"
       THEN \E ok \in BOOLEAN :
              LET hwNow == Append(hw, Ev("getInstanceInfoFromMetadata", ok)) IN
              IF ~ok
              THEN AReturn(NoOut, ErrMetadata, hwNow)
              ELSE /\ hw' = hwNow
                   /\ apc' = "Marshal"
                   /\ UNCHANGED <<defers, aret, panicked>>
       ELSE /\ apc' = "Marshal"
            /\ UNCHANGED <<hw, defers, aret, panicked>>
    /\ UNCHANGED <<opts, attestOpts>>
    /\ UNCHANGED vvars

(* The serialized record: its encoding and what was bound into it. *)
Serialized(format) ==
    [enc |-> format, quoteNonce |-> attestOpts.Nonce,
     tee |-> attestOpts.TEEDevice, teeNonce |-> attestOpts.TEENonce,
     instanceInfo |-> (opts.Key = "gceAK")]

(* attestation.go 139-149 *)
AMarshal ==
    /\ apc = "Marshal"
    /\ IF opts.Format = "binarypb"
       THEN \E ok \in BOOLEAN :
              IF ~ok
              THEN AReturn(NoOut, ErrMarshal, hw)
              ELSE AReturn(Serialized("binarypb"), ErrNil, hw)
       ELSE AReturn(Serialized("textproto"), ErrNil, hw)
    /\ UNCHANGED <<opts, attestOpts>>
    /\ UNCHANGED vvars

(* The caller takes the result; the next call starts from fresh locals. *)
AttestReturn ==
    /\ apc = "done"
    /\ apc' = "idle"
    /\ opts' = DefaultAttestOptions
    /\ hw' = <<>>
    /\ defers' = <<>>
    /\ attestOpts' = NoAttestOpts
    /\ aret' = NoARet
    /\ panicked' = FALSE
    /\ UNCHANGED vvars

(***************************************************************************)
(* The specification                                                       *)
(***************************************************************************)

Init == VInit /\ AInit

Next ==
    \/ VerifyCall
    \/ VUnmarshal
    \/ VDecodePublic
    \/ VPubKey
    \/ VServerVerify
    \/ VVerifyGceTechnology
    \/ VParseTEEAttestation
    \/ VerifyReturn
    \/ AttestCall
    \/ AOpenTPM
    \/ ACheckFormat
    \/ ALookupKey
    \/ ACreateKey
    \/ ATeeTechnology
    \/ AGetEventLog
    \/ AKeyAttest
    \/ AInstanceInfo
    \/ AMarshal
    \/ AttestReturn

Spec == Init /\ [][Next]_vars


(***************************************************************************)
(* Properties of VerifyAttestation                                         *)
(***************************************************************************)

VReturned == vpc = "done"

(* The evidence variant that belongs to a technology. *)
VariantOf(tech) ==
    IF tech = "AMD_SEV_SNP" THEN "SevSnpAttestation"
    ELSE IF tech = "INTEL_TDX" THEN "TdxAttestation"
    ELSE "nil"

(* The verifier that belongs to an evidence variant. *)
VerifierOf(variant) ==
    IF variant = "SevSnpAttestation" THEN "sev-snp" ELSE "tdx"

Slot == attestation.TeeAttestation

(* C1: when the base verification succeeded with technology sev-snp or tdx *)
(* and the record's TEE-evidence slot does not hold the matching variant   *)
(* (the other variant, or nothing), the call returns an error and no       *)
(* MachineState.                                                           *)
C1_MatchingVariantRequired ==
    (VReturned /\ ms.present /\ ms.Technology \in {"AMD_SEV_SNP", "INTEL_TDX"})
        => IF Slot.variant = VariantOf(ms.Technology)
           THEN TRUE
           ELSE vret.err # ErrNil /\ vret.ms = NoMS

C1_Witness ==
    /\ VReturned
    /\ ms.present
    /\ ms.Technology = "AMD_SEV_SNP"
    /\ Slot.variant = "TdxAttestation"
    /\ Slot.genuine
    /\ vret.err = ErrParseTEE

(* C2: every TEE verifier invocation of a call is handed teeNonce as the   *)
(* expected report data when teeNonce is non-empty, and nonce otherwise.   *)
C2_ExpectedReportData ==
    \A i \in DOMAIN teeCalls :
        teeCalls[i].expected =
            IF vin.teeNonce # <<>> THEN vin.teeNonce ELSE vin.nonce

C2_Witness ==
    /\ teeCalls # <<>>
    /\ teeCalls[1].verifier = "tdx"
    /\ vin.teeNonce # <<>>
    /\ vin.nonce # <<>>
    /\ vin.teeNonce # vin.nonce
    /\ teeCalls[1].expected = vin.teeNonce

(* C3: a returned MachineState whose TEE slot is populated holds evidence  *)
(* that the verifier of that variant was run on earlier in the call, with  *)
(* success.                                                                *)
C3_TeeSlotVerified ==
    (VReturned /\ vret.ms.present /\ vret.ms.TeeAttestation # NoTee)
        => \E i \in DOMAIN teeCalls :
              /\ teeCalls[i].verifier = VerifierOf(vret.ms.TeeAttestation.variant)
              /\ teeCalls[i].evidence = vret.ms.TeeAttestation
              /\ teeCalls[i].ok

C3_Witness ==
    /\ VReturned
    /\ vret.err = ErrNil
    /\ vret.ms.TeeAttestation.variant = "SevSnpAttestation"

OtherTechnology == ms.present /\ ms.Technology \notin {"NONE", "AMD_SEV_SNP", "INTEL_TDX"}

(* C4 as stated: a verified technology other than none, sev-snp or tdx     *)
(* makes the call return an error and no MachineState.                     *)
C4_UnsupportedTechnologyRejected ==
    (VReturned /\ OtherTechnology) => (vret.err # ErrNil /\ vret.ms = NoMS)

(* C4 amended: a verified technology other than none, sev-snp or tdx is    *)
(* not rejected. The call returns a MachineState with that technology and  *)
(* an empty TEE slot when the record's slot is empty or its evidence       *)
(* passes its verifier, and fails with the TEE verification error          *)
(* otherwise.                                                              *)
C4_OtherTechnologyAccepted ==
    (VReturned /\ OtherTechnology)
        => IF Slot = NoTee \/ (teeCalls # <<>> /\ teeCalls[1].ok)
           THEN vret = [ms |-> MachineState(ms.Technology, NoTee), err |-> ErrNil]
           ELSE vret = [ms |-> NoMS, err |-> ErrTEE]

C4_Witness ==
    /\ VReturned
    /\ ms.present
    /\ ms.Technology = "AMD_SEV"
    /\ Slot # NoTee
    /\ vret.err = ErrNil

(* C5 as stated: when the verified technology is none, no TEE-evidence     *)
(* verifier is invoked.                                                    *)
C5_NoVerifierWhenTechnologyNone ==
    (ms.present /\ ms.Technology = "NONE") => teeCalls = <<>>

VerifyGceTechnologyRan ==
    \E i \in DOMAIN vstages : vstages[i] = "verifyGceTechnology"

(* C5 amended: the verifier is chosen from the variant the record carries, *)
(* whatever the verified technology. Once verifyGceTechnology has run, no  *)
(* verifier was invoked if the slot is empty, and otherwise exactly the    *)
(* verifier of the slot's variant was invoked on the slot's evidence. With *)
(* verified technology none and a non-empty slot the call fails when that  *)
(* verifier rejects the evidence, and otherwise returns a MachineState     *)
(* with an empty TEE slot.                                                 *)
C5_VerifierChosenFromRecord ==
    /\ VerifyGceTechnologyRan =>
          IF Slot = NoTee
          THEN teeCalls = <<>>
          ELSE /\ Len(teeCalls) = 1
               /\ teeCalls[1].verifier = VerifierOf(Slot.variant)
               /\ teeCalls[1].evidence = Slot
    /\ (VReturned /\ ms.present /\ ms.Technology = "NONE" /\ Slot # NoTee) =>
          /\ Len(teeCalls) = 1
          /\ IF teeCalls[1].ok
             THEN vret = [ms |-> MachineState("NONE", NoTee), err |-> ErrNil]
             ELSE vret = [ms |-> NoMS, err |-> ErrTEE]

C5_Witness ==
    /\ VReturned
    /\ ms.present
    /\ ms.Technology = "NONE"
    /\ Slot.variant = "TdxAttestation"
    /\ teeCalls # <<>>
    /\ vret.err = ErrTEE


(* The stages of VerifyAttestation in the order the code runs them. *)
AllStages ==
    <<"unmarshal", "DecodePublic", "pub.Key", "server.VerifyAttestation",
      "verifyGceTechnology", "parseTEEAttestation">>

(* The stage whose failure an error value reports. *)
StageOf(err) ==
    IF err \in {ErrUnmarshal, ErrBadFormat} THEN 1
    ELSE IF err = ErrDecodePublic THEN 2
    ELSE IF err = ErrPubKey THEN 3
    ELSE IF err = ErrTPM THEN 4
    ELSE IF err = ErrTEE THEN 5
    ELSE IF err = ErrParseTEE THEN 6
    ELSE 0

(* C10: the call returns a MachineState and no error after all stages have *)
(* run, or an error and no MachineState; in the second case the stages     *)
(* that ran are those up to the failing one and none after it, and no TEE  *)
(* verifier ran when the failure precedes verifyGceTechnology.             *)
C10_AllOrNothing ==
    VReturned =>
        \/ /\ vret.err = ErrNil
           /\ vret.ms.present
           /\ vstages = AllStages
        \/ /\ vret.err # ErrNil
           /\ vret.ms = NoMS
           /\ StageOf(vret.err) \in 1..6
           /\ vstages = SubSeq(AllStages, 1, StageOf(vret.err))
           /\ (StageOf(vret.err) < 5 => teeCalls = <<>>)

C10_Witness ==
    /\ VReturned
    /\ vret.err = ErrTPM
    /\ vret.ms = NoMS
    /\ Slot # NoTee

(***************************************************************************)
(* Properties of Attest                                                    *)
(***************************************************************************)

AReturned == apc = "done"

(* The errors that reject an argument of Attest (InvalidArgument). *)
InvalidArgument == {ErrBadFormat, ErrKey, ErrTeeNonce, ErrTeeTech}

(* The operations of kind op performed so far. *)
Ops(op) == {i \in DOMAIN hw : hw[i].op = op}

OpenAttempted == Ops("tpm2.OpenTPM") # {}

DeviceOpened == \E i \in DOMAIN hw : hw[i] = Ev("tpm2.OpenTPM", TRUE)

KeyDerivations ==
    {i \in DOMAIN hw :
        hw[i].op \in {"client.AttestationKeyRSA", "client.AttestationKeyECC",
                      "client.GceAttestationKeyRSA", "client.GceAttestationKeyECC"}}

BadFormat == opts.Format \notin {"binarypb", "textproto"}

(* C6 as stated: a call whose Format is neither binarypb nor textproto     *)
(* fails with an InvalidArgument error and the device is never opened.     *)
C6_FormatRejectedBeforeOpen ==
    (AReturned /\ BadFormat) => (aret.err \in InvalidArgument /\ ~OpenAttempted)

(* C6 amended: a call whose Format is neither binarypb nor textproto first *)
(* opens the device. If the open fails the call returns the open failure;  *)
(* otherwise it returns the format error, having derived no key and        *)
(* touched nothing else, and the device is released before the return.     *)
C6_FormatRejectedAfterOpen ==
    (AReturned /\ BadFormat) =>
        /\ aret.out = NoOut
        /\ ~panicked
        /\ \/ /\ aret.err = ErrOpenTPM
              /\ hw = <<Ev("tpm2.OpenTPM", FALSE)>>
           \/ /\ aret.err = ErrBadFormat
              /\ hw = <<Ev("tpm2.OpenTPM", TRUE), Ev("rwc.Close", TRUE)>>

C6_Witness ==
    /\ AReturned
    /\ BadFormat
    /\ aret.err = ErrBadFormat
    /\ DeviceOpened

NonceWithoutTechnology == opts.TeeNonce # <<>> /\ opts.TeeTechnology = ""

(* C7 as stated: a call with a non-empty TeeNonce and TeeTechnology none   *)
(* fails with an InvalidArgument error before the device is opened or a    *)
(* key derived.                                                            *)
C7_NonceRejectedBeforeDevice ==
    (AReturned /\ NonceWithoutTechnology) =>
        (aret.err \in InvalidArgument /\ ~OpenAttempted /\ KeyDerivations = {})

(* C7 amended: a call with a non-empty TeeNonce and TeeTechnology none     *)
(* never succeeds. The TeeNonce error is returned only after the device    *)
(* was opened and the attestation key derived, and exactly then; no        *)
(* evidence provider is opened and no event log read, and key and device   *)
(* are released before the return.                                         *)
C7_NonceRejectedAfterKey ==
    (AReturned /\ NonceWithoutTechnology) =>
        /\ aret.out = NoOut
        /\ aret.err # ErrNil
        /\ (aret.err = ErrTeeNonce) <=>
              /\ opts.Key \in DOMAIN attestationKeys
              /\ opts.KeyAlgo \in DOMAIN attestationKeys[opts.Key]
              /\ hw = <<Ev("tpm2.OpenTPM", TRUE),
                        Ev(attestationKeys[opts.Key][opts.KeyAlgo], TRUE),
                        Ev("attestationKey.Close", TRUE),
                        Ev("rwc.Close", TRUE)>>

C7_Witness ==
    /\ AReturned
    /\ NonceWithoutTechnology
    /\ aret.err = ErrTeeNonce
    /\ KeyDerivations # {}

(* C8: once the device has been opened, every way the call ends (a return  *)
(* with or without error, or a panic) has released the device exactly      *)
(* once, as the last operation before the call ends; while the call runs   *)
(* the release is pending exactly once.                                    *)
C8_DeviceReleasedOnce ==
    DeviceOpened =>
        IF AReturned
        THEN /\ Cardinality(Ops("rwc.Close")) = 1
             /\ hw[Len(hw)] = Ev("rwc.Close", TRUE)
             /\ defers = <<>>
        ELSE /\ Ops("rwc.Close") = {}
             /\ defers # <<>>
             /\ defers[1] = "rwc.Close"
             /\ \A i \in DOMAIN defers : i > 1 => defers[i] # "rwc.Close"

C8_Witness ==
    /\ AReturned
    /\ panicked
    /\ DeviceOpened
    /\ Cardinality(Ops("rwc.Close")) = 1

UnknownKeyAlgo ==
    /\ opts.Key \in {"AK", "gceAK"}
    /\ opts.KeyAlgo \notin {"AlgRSA", "AlgECC"}

(* C9 as stated: a call with a valid Key and a KeyAlgo that is neither RSA *)
(* nor ECC does not crash, and once the device is open it returns an       *)
(* InvalidArgument error.                                                  *)
C9_UnknownKeyAlgoRejected ==
    (AReturned /\ UnknownKeyAlgo) =>
        /\ ~panicked
        /\ DeviceOpened => aret.err \in InvalidArgument


(***************************************************************************)
(* Independence of teeNonce                                                *)
(***************************************************************************)

EmptySlotRecord == vin.attestationBytes.rec.TeeAttestation = NoTee

(* C11: when the record's TEE-evidence slot is empty, the call invokes no  *)
(* TEE verifier, and the value it returns is the value the call returns    *)
(* for the same bytes, format and nonce with any other teeNonce, empty or  *)
(* not.                                                                    *)
C11_EmptySlotIgnoresTeeNonce ==
    (VReturned /\ EmptySlotRecord) =>
        /\ teeCalls = <<>>
        /\ \A t \in Nonces :
              VerifyAttestation(vin.attestationBytes, vin.format, vin.nonce, t) = vret

C11_Witness ==
    /\ VReturned
    /\ EmptySlotRecord
    /\ vin.attestationBytes.enc # "garbage"
    /\ vin.teeNonce # <<>>
    /\ vin.teeNonce # vin.nonce
    /\ teeCalls = <<>>
    /\ vret.err = ErrNil

====
